---- MODULE Spec2Model ----
(***************************************************************************)
(* Model of dashboard.py: the B-Peach EM Score Dashboard.                  *)
(*                                                                         *)
(* The script is re-executed top to bottom on every page run of a session. *)
(* Two pieces of state survive between runs: the process-wide              *)
(* st.cache_data cache of fetch_csv_content, which all sessions share, and *)
(* st.session_state.selected_file.  A run proceeds in steps: its start,    *)
(* the listing, the select box, one fetch_csv_content call per file, and   *)
(* the rest of the script.  Between two steps the run can be stopped by a  *)
(* rerun request and the script threads of other sessions can call         *)
(* fetch_csv_content.  st.cache_data computes a value under the lock of    *)
(* its cache key, so the request, the decoding and the store of one call   *)
(* are one step, unless a rerun request is handled at the st.error of      *)
(* line 59: the call is then left with the request issued and nothing      *)
(* stored.                                                                 *)
(*                                                                         *)
(* Abstractions.  A file name is a string whose suffix is known            *)
(* (HasCsvSuffix).  A str is a sequence of tokens: a passage is a          *)
(* sequence of words in which "<span" is one token; in the text of a       *)
(* tagged_words cell the tokens are "[", "]", "," and the quoted literals  *)
(* "'x'", "'y'"; the characters x and y are tokens of their own.  A Python *)
(* value is [type, v]: a str with its tokens, a list or a tuple with its   *)
(* items.  A DataFrame is the sequence of its rows.  em_score is counted   *)
(* in units of 1/ScoreUnit and a mean is kept as the exact fraction        *)
(* [sum, n].                                                               *)
(***************************************************************************)
EXTENDS Integers, Sequences, FiniteSets, TLC

VARIABLES
    cache,          \* st.cache_data of fetch_csv_content: file name -> DataFrame
    calls,          \* number of requests.get issued by fetch_csv_content, per name
    first,          \* history: what the first returning fetch of a name returned
    last,           \* history: the latest return of fetch_csv_content
    selected_file,  \* st.session_state.selected_file, Absent when the key is not set
    options,        \* options of the select box rendered by the latest run
    run,            \* record of the latest page run
    loc,            \* locals of the aggregate_csv_files call in progress
    agg,            \* outcome of the latest direct call of aggregate_csv_files, once it ended
    adf,            \* table handed to analysis_pattern
    ares            \* outcome of the latest analysis_pattern(adf)

vars == <<cache, calls, first, last, selected_file, options, run, loc, agg, adf, ares>>

(***************************************************************************)
(* Bounds                                                                  *)
(***************************************************************************)
MaxFiles == 2       \* most entries of the folder / longest list of file names
MaxCalls == 2       \* network calls counted per file name
MaxRows == 2        \* longest table handed to analysis_pattern
MaxTags == 2        \* longest tag list in a tagged_words cell

(***************************************************************************)
(* Values                                                                  *)
(***************************************************************************)
CsvNames == {"output_a.csv", "output_b.csv"}
OtherNames == {"notes.txt"}
AllNames == CsvNames \cup OtherNames
Absent == "<absent>"

Tags == {"x", "y"}
ScoreUnit == 2
Scores == {0, 1, 2}                 \* em_score 0.0, 0.5, 1.0
StatusOK == 200
StatusCodes == {200, 403}

\* sequences over S of length at most n
SeqsUpTo(S, n) == UNION {[1..k -> S] : k \in 0..n}

Range(s) == {s[i] : i \in DOMAIN s}

RECURSIVE Flatten(_)
Flatten(ss) == IF ss = <<>> THEN <<>> ELSE Head(ss) \o Flatten(Tail(ss))

Str(tokens) == [type |-> "str", v |-> tokens]
List(items) == [type |-> "list", v |-> items]
Tuple(items) == [type |-> "tuple", v |-> items]

(***************************************************************************)
(* get_file_list: the folder listing, filtered by suffix; empty on a       *)
(* non-success response.  A listing response is the status code and the   *)
(* names of the folder entries (which only a success response carries).   *)
(***************************************************************************)
HasCsvSuffix(name) == name \in CsvNames

get_file_list_unchecked(response) ==
    SelectSeq(response.names, HasCsvSuffix)

get_file_list(response) ==
    IF response.status = StatusOK
    THEN SelectSeq(response.names, HasCsvSuffix)
    ELSE <<>>

(***************************************************************************)
(* fetch_csv_content under @st.cache_data.  A value the function returns   *)
(* is stored under the file name and later calls are answered with a copy  *)
(* of the stored value; an exception is not stored.  response is what the  *)
(* contents API answers for the name at the time of the call, rerun tells  *)
(* whether a rerun request is pending when st.error is called at line 59:  *)
(* the element call then raises the control exception that ends the run,   *)
(* before anything is returned or stored.  The shared state is             *)
(* w = [cache, calls, first, last].                                        *)
(***************************************************************************)
EmptyDataFrame == <<>>

df_empty(df) == Len(df) = 0

\* base64 -> utf-8 -> read_csv succeeds on the content
Decodable(content) == content.kind = "csv"

read_csv(content) == content.table

\* the remote service now holds other content than the table df
Changed(response, df) ==
    /\ response.status = StatusOK
    /\ Decodable(response.content)
    /\ read_csv(response.content) # df

CacheHitNever(c, file_name) == FALSE

CacheHit(c, file_name) == file_name \in DOMAIN c

Returned(w, file_name, df, how, stale) ==
    [w EXCEPT !.last = [name |-> file_name, df |-> df, how |-> how, stale |-> stale],
              !.first = IF file_name \in DOMAIN @ THEN @ ELSE (file_name :> df) @@ @]

Store(w, file_name, df, how) ==
    [Returned(w, file_name, df, how, FALSE) EXCEPT !.cache = (file_name :> df) @@ @]

fetch_csv_content(file_name, response, rerun, w) ==
    IF CacheHit(w.cache, file_name)
    THEN [raised |-> FALSE, df |-> w.cache[file_name], how |-> "cache",
          w |-> Returned(w, file_name, w.cache[file_name], "cache",
                         Changed(response, w.cache[file_name]))]
    ELSE LET w1 == [w EXCEPT !.calls[file_name] = @ + 1]
         IN IF response.status = StatusOK
            THEN IF Decodable(response.content)
                 THEN [raised |-> FALSE, df |-> read_csv(response.content),
                       how |-> "fetched",
                       w |-> Store(w1, file_name, read_csv(response.content), "fetched")]
                 ELSE [raised |-> TRUE, df |-> EmptyDataFrame, how |-> "raised",
                       w |-> w1]
            ELSE IF rerun
                 THEN [raised |-> TRUE, df |-> EmptyDataFrame, how |-> "stopped",
                       w |-> w1]
                 ELSE [raised |-> FALSE, df |-> EmptyDataFrame, how |-> "failed",
                       w |-> Store(w1, file_name, EmptyDataFrame, "failed")]

(***************************************************************************)
(* aggregate_csv_files.  The locals of a call are loc = [pc, file_names,   *)
(* next, all_data, returned]: next is the position of the loop in          *)
(* file_names, returned the log of what the fetches of this call handed    *)
(* back, as <<name, DataFrame, how>>.  An exception of a fetch leaves the  *)
(* call: pc is then "raised", or "stopped" for the control exception.      *)
(***************************************************************************)
RECURSIVE str_count(_, _)
str_count(text, pat) ==
    IF text = <<>> THEN 0
    ELSE (IF Head(text) = pat THEN 1 ELSE 0) + str_count(Tail(text), pat)

with_span_count(df) ==
    [i \in DOMAIN df |->
        [original_passage |-> df[i].original_passage,
         tagged_words |-> df[i].tagged_words,
         em_score |-> df[i].em_score,
         span_count |-> str_count(df[i].original_passage, "<span")]]

concat_first_only(all_data) == IF all_data = <<>> THEN <<>> ELSE Head(all_data)

pd_concat(all_data) == Flatten(all_data)

NoCall == [pc |-> "idle", file_names |-> <<>>, next |-> 1,
           all_data |-> <<>>, returned |-> <<>>]

\* line 97
aggregate_enter(file_names) == [NoCall EXCEPT !.pc = "loop", !.file_names = file_names]

\* lines 98-102, one iteration
aggregate_iteration(l, response, rerun, w) ==
    LET file_name == l.file_names[l.next]
        r == fetch_csv_content(file_name, response, rerun, w)
    IN IF r.raised
       THEN [loc |-> [l EXCEPT !.pc = r.how], w |-> r.w]
       ELSE [loc |-> [l EXCEPT !.next = @ + 1,
                               !.all_data = IF ~ df_empty(r.df)
                                            THEN Append(@, with_span_count(r.df))
                                            ELSE @,
                               !.returned = Append(@, <<file_name, r.df, r.how>>)],
             w |-> r.w]

\* line 103
aggregate_result(l) ==
    IF l.all_data # <<>> THEN pd_concat(l.all_data) ELSE EmptyDataFrame

(***************************************************************************)
(* analysis_pattern                                                        *)
(*                                                                         *)
(* eval of a tagged_words cell.  A cell that is not a str makes eval       *)
(* raise.  The text of a str is read as a Python expression list:          *)
(*     input: item ("," item)* [","]     a tuple when it has a comma       *)
(*     item:  literal+                   adjacent literals are joined      *)
(*          | "[" [item ("," item)* [","]] "]"                             *)
(* Any other text makes eval raise: it is no expression, it names an       *)
(* undefined variable, or it subscripts a str or a list with a str, a list *)
(* or a tuple.                                                             *)
(***************************************************************************)
Literal == [t \in Tags |-> IF t = "x" THEN "'x'" ELSE "'y'"]

IsLiteral(token) == \E t \in Tags : Literal[t] = token

Unquote(token) == CHOOSE t \in Tags : Literal[t] = token

\* literal+ from position i: the joined characters and the position after
RECURSIVE strings(_, _)
strings(text, i) ==
    IF i <= Len(text) /\ IsLiteral(text[i])
    THEN LET s == strings(text, i + 1)
         IN [chars |-> <<Unquote(text[i])>> \o s.chars, next |-> s.next]
    ELSE [chars |-> <<>>, next |-> i]

NoItem == [ok |-> FALSE, val |-> Str(<<>>), next |-> 0]

NoItems == [ok |-> FALSE, items |-> <<>>, next |-> 0, commas |-> FALSE]

RECURSIVE parse_item(_, _)
RECURSIVE parse_items(_, _, _, _)

parse_item(text, i) ==
    IF i > Len(text) THEN NoItem
    ELSE IF IsLiteral(text[i])
    THEN LET s == strings(text, i)
         IN [ok |-> TRUE, val |-> Str(s.chars), next |-> s.next]
    ELSE IF text[i] = "["
    THEN LET r == parse_items(text, i + 1, <<>>, FALSE)
         IN IF r.ok /\ r.next <= Len(text) /\ text[r.next] = "]"
            THEN [ok |-> TRUE, val |-> List(r.items), next |-> r.next + 1]
            ELSE NoItem
    ELSE NoItem

\* item ("," item)* [","] from position i, after the items already read
parse_items(text, i, items, commas) ==
    IF i <= Len(text) /\ (IsLiteral(text[i]) \/ text[i] = "[")
    THEN LET a == parse_item(text, i)
         IN IF ~ a.ok THEN NoItems
            ELSE IF a.next <= Len(text) /\ text[a.next] = ","
            THEN parse_items(text, a.next + 1, Append(items, a.val), TRUE)
            ELSE [ok |-> TRUE, items |-> Append(items, a.val),
                  next |-> a.next, commas |-> commas]
    ELSE [ok |-> TRUE, items |-> items, next |-> i, commas |-> commas]

literal_ok(text) ==
    LET r == parse_items(text, 1, <<>>, FALSE)
    IN r.ok /\ r.next = Len(text) + 1 /\ r.items # <<>>

eval_ok(cell) == cell.type = "str" /\ literal_ok(cell.v)

eval_value(cell) ==
    LET r == parse_items(cell.v, 1, <<>>, FALSE)
    IN IF r.commas THEN Tuple(r.items) ELSE r.items[1]

\* df['tagged_words'] = df['tagged_words'].apply(eval): the column of the
\* caller's table is replaced when every cell evaluates; df is the table after
apply_eval_skip_bad(df) ==
    LET good == SelectSeq(df, LAMBDA row : eval_ok(row.tagged_words))
    IN [raised |-> FALSE,
        df |-> [i \in DOMAIN good |->
                  [good[i] EXCEPT !.tagged_words = eval_value(@)]]]

apply_eval(df) ==
    IF \E i \in DOMAIN df : ~ eval_ok(df[i].tagged_words)
    THEN [raised |-> TRUE, df |-> df]
    ELSE [raised |-> FALSE,
          df |-> [i \in DOMAIN df |->
                    [df[i] EXCEPT !.tagged_words = eval_value(@)]]]

\* for tag in tags: the characters of a str, the items of a list or a tuple
iterate(value) ==
    IF value.type = "str"
    THEN [i \in DOMAIN value.v |-> Str(<<value.v[i]>>)]
    ELSE value.v

\* tag not in tag_counts hashes the tag: a list, or a tuple that holds one,
\* raises TypeError
RECURSIVE Hashable(_)
Hashable(value) ==
    \/ value.type = "str"
    \/ /\ value.type = "tuple"
       /\ \A i \in DOMAIN value.v : Hashable(value.v[i])

\* the dictionaries tag_counts and tag_em_scores; order is their key order
NoTags == [raised |-> FALSE, order |-> <<>>, tag_counts |-> <<>>,
           tag_em_scores |-> <<>>]

RECURSIVE tag_loop(_, _, _)
tag_loop(tags, em_score, acc) ==
    IF tags = <<>> THEN acc
    ELSE LET tag == Head(tags)
         IN IF ~ Hashable(tag) THEN [acc EXCEPT !.raised = TRUE]
            ELSE LET a1 == IF tag \notin DOMAIN acc.tag_counts
                           THEN [acc EXCEPT
                                   !.order = Append(@, tag),
                                   !.tag_counts = (tag :> 0) @@ @,
                                   !.tag_em_scores = (tag :> <<>>) @@ @]
                           ELSE acc
                     a2 == [a1 EXCEPT !.tag_counts[tag] = @ + 1,
                                      !.tag_em_scores[tag] = Append(@, em_score)]
                 IN tag_loop(Tail(tags), em_score, a2)

RECURSIVE row_loop(_, _)
row_loop(rows, acc) ==
    IF rows = <<>> \/ acc.raised THEN acc
    ELSE row_loop(Tail(rows),
                  tag_loop(iterate(Head(rows).tagged_words), Head(rows).em_score, acc))

RECURSIVE sum(_)
sum(scores) == IF scores = <<>> THEN 0 ELSE Head(scores) + sum(Tail(scores))

\* sum(scores) / len(scores), kept as a fraction
tag_em_avg(tag_em_scores) ==
    [tag \in DOMAIN tag_em_scores |->
        [sum |-> sum(tag_em_scores[tag]), n |-> Len(tag_em_scores[tag])]]

\* pd.DataFrame({'tag': ..., 'average_em_score': ..., 'tag_count': ...})
FrameColumns == {"tag", "average_em_score", "tag_count"}

tag_frame(acc) ==
    [i \in DOMAIN acc.order |->
        [tag |-> acc.order[i],
         average_em_score |-> tag_em_avg(acc.tag_em_scores)[acc.order[i]],
         tag_count |-> acc.tag_counts[acc.order[i]]]]

(***************************************************************************)
(* DataFrame.sort_values(by, ascending=False, ignore_index=True): by has   *)
(* to be a column label; any other object, a callable included, raises     *)
(* KeyError.  Numbers are compared as fractions, str tags character by     *)
(* character; rows with equal values keep their order.                     *)
(***************************************************************************)
CharRank == [c \in Tags |-> IF c = "x" THEN 1 ELSE 2]

RECURSIVE str_gt(_, _)
str_gt(a, b) ==
    IF a = <<>> THEN FALSE
    ELSE IF b = <<>> THEN TRUE
    ELSE IF Head(a) = Head(b) THEN str_gt(Tail(a), Tail(b))
    ELSE CharRank[Head(a)] > CharRank[Head(b)]

column_value(row, by) ==
    IF by = "tag_count" THEN [sum |-> row.tag_count, n |-> 1]
    ELSE row.average_em_score

frac_gt(a, b) == a.sum * b.n > b.sum * a.n
frac_eq(a, b) == a.sum * b.n = b.sum * a.n

column_gt(a, b, by) ==
    IF by = "tag" THEN str_gt(a.tag.v, b.tag.v)
    ELSE frac_gt(column_value(a, by), column_value(b, by))

column_eq(a, b, by) ==
    IF by = "tag" THEN a.tag.v = b.tag.v
    ELSE frac_eq(column_value(a, by), column_value(b, by))

descending_rank(frame, by, i) ==
    1 + Cardinality({j \in DOMAIN frame :
            \/ column_gt(frame[j], frame[i], by)
            \/ /\ column_eq(frame[j], frame[i], by)
               /\ j < i})

sort_values(frame, by) ==
    IF by \in FrameColumns
    THEN [raised |-> FALSE,
          frame |-> [p \in DOMAIN frame |->
                       frame[CHOOSE i \in DOMAIN frame :
                                descending_rank(frame, by, i) = p]]]
    ELSE [raised |-> TRUE, frame |-> <<>>]

\* the object handed to by= at line 86: a function, not a column label
SortKeyCallable == "<lambda>"

\* given is the table as handed in, df the caller's table after the call
AnalysisOutcome(status, acc, result, given, df) ==
    [status |-> status,
     order |-> acc.order,
     tag_counts |-> acc.tag_counts,
     tag_em_avg |-> tag_em_avg(acc.tag_em_scores),
     result |-> result,
     given |-> given,
     df |-> df]

analysis_pattern(df, weight) ==
    LET evald == apply_eval(df)
    IN IF evald.raised
       THEN AnalysisOutcome("eval_raised", NoTags, <<>>, df, evald.df)
       ELSE LET acc == row_loop(evald.df, NoTags)
            IN IF acc.raised
               THEN AnalysisOutcome("TypeError", acc, <<>>, df, evald.df)
               ELSE LET sorted == sort_values(tag_frame(acc), SortKeyCallable)
                    IN IF sorted.raised
                       THEN AnalysisOutcome("KeyError", acc, <<>>, df, evald.df)
                       ELSE AnalysisOutcome("returned", acc, sorted.frame, df, evald.df)

weight_factor == 2

(***************************************************************************)
(* Inputs: what the remote service answers                                 *)
(***************************************************************************)
Row1 == [original_passage |-> <<"a", "<span", "b">>,
         tagged_words |-> Str(<<"[", "'x'", "]">>), em_score |-> 2]
Row2 == [original_passage |-> <<"c">>,
         tagged_words |-> Str(<<"[", "'x'", ",", "'y'", "]">>), em_score |-> 1]
Row3 == [original_passage |-> <<"<span", "d", "<span">>,
         tagged_words |-> Str(<<"[", "'y'", "]">>), em_score |-> 0]

FileTables == {<<>>, <<Row1>>, <<Row2, Row3>>}

FileResponses ==
    {[status |-> StatusOK, content |-> [kind |-> "csv", table |-> t]] : t \in FileTables}
    \cup {[status |-> StatusOK, content |-> [kind |-> "undecodable", table |-> <<>>]],
          [status |-> 403, content |-> [kind |-> "error_body", table |-> <<>>]]}

\* the contents API lists the entries of a folder in the order of their names
NameOrder == <<"notes.txt", "output_a.csv", "output_b.csv">>

ListingResponses ==
    {[status |-> s, names |-> SelectSeq(NameOrder, LAMBDA n : n \in entries)] :
        s \in StatusCodes,
        entries \in {e \in SUBSET AllNames : Cardinality(e) <= MaxFiles}}

FileNameLists == SeqsUpTo(CsvNames, MaxFiles)

\* str(list) of a list of tags, as the files hold it
RECURSIVE join(_)
join(tags) ==
    IF tags = <<>> THEN <<>>
    ELSE IF Len(tags) = 1 THEN <<Literal[Head(tags)]>>
    ELSE <<Literal[Head(tags)], ",">> \o join(Tail(tags))

list_text(tags) == <<"[">> \o join(tags) \o <<"]">>

\* texts on which eval raises
MalformedCells == {<<"[", "'x'">>, <<"[", ",", "]">>, <<"x">>}

\* texts that evaluate and are not the str() of a list of tags: a trailing
\* comma, joined literals, a str, a tuple, a nested list
OtherCells ==
    {<<"[", "'x'", ",", "]">>, <<"[", "'x'", "'y'", "]">>, <<"'x'", "'y'">>,
     <<"'x'", ",">>, <<"[", "[", "'x'", "]", "]">>}

TagCells ==
    {Str(list_text(ts)) : ts \in SeqsUpTo(Tags, MaxTags)}
    \cup {Str(t) : t \in MalformedCells \cup OtherCells}

AnalysisRows ==
    {[original_passage |-> <<"t">>, tagged_words |-> c, em_score |-> e, span_count |-> 0] :
        c \in TagCells, e \in Scores}

AnalysisTables == SeqsUpTo(AnalysisRows, MaxRows)

(***************************************************************************)
(* Initial state: a fresh process and a fresh session                      *)
(***************************************************************************)
NoChoice == "<none>"

NoFetch == [name |-> "<none>", df |-> <<>>, how |-> "none", stale |-> FALSE]

NoListing == [status |-> StatusOK, names |-> <<>>]

\* listed: get_file_list has received the answer of the listing request
NotRun == [status |-> "not_run", listed |-> FALSE, listing |-> NoListing,
           files |-> <<>>, fetched |-> {}]

NotCalled == [status |-> "not_called", file_names |-> <<>>,
              returned |-> <<>>, result |-> <<>>]

NotAnalysed == AnalysisOutcome("not_run", NoTags, <<>>, <<>>, <<>>)

Init ==
    /\ cache = <<>>
    /\ calls = [n \in CsvNames |-> 0]
    /\ first = <<>>
    /\ last = NoFetch
    /\ selected_file = Absent
    /\ options = <<>>
    /\ run = NotRun
    /\ loc = NoCall
    /\ agg = NotCalled
    /\ adf = <<>>
    /\ ares = NotAnalysed

Shared == [cache |-> cache, calls |-> calls, first |-> first, last |-> last]

SetShared(w) ==
    /\ cache' = w.cache
    /\ calls' = w.calls
    /\ first' = w.first
    /\ last' = w.last

WithinCalls(w) == \A n \in CsvNames : w.calls[n] <= MaxCalls

(***************************************************************************)
(* A page run, lines 106-172, step by step.  loc.pc is the position of the *)
(* script: "idle" between runs, "start" at the element calls before the    *)
(* listing (lines 10, 106), "empty" at the element calls of a run whose    *)
(* listing gave no file (lines 44, 172), "listed" after line 110,          *)
(* "select" in the select box call of line 116 with the widget registered  *)
(* and its element not yet sent, "loop" inside the aggregate_csv_files     *)
(* call of line 125.                                                       *)
(* An uncaught exception ends the run, and so does a rerun request, which  *)
(* is handled at an element call.  When a run ends before the select box   *)
(* widget is registered, Streamlit may discard the state kept under the    *)
(* widget's key: cleanup leaves both outcomes open.                        *)
(***************************************************************************)
EndRun(status) ==
    /\ run' = [run EXCEPT !.status = status]
    /\ loc' = [loc EXCEPT !.pc = "idle"]

\* lines 10-106, the start of a run: the session state holds what the user
\* picked in the select box that the browser shows (choice)
StartRun(choice) ==
    /\ loc.pc = "idle"
    /\ choice \in {NoChoice} \cup Range(options)
    /\ run' = [NotRun EXCEPT !.status = "running"]
    /\ loc' = [NoCall EXCEPT !.pc = "start"]
    /\ selected_file' = IF choice = NoChoice THEN selected_file ELSE choice
    /\ UNCHANGED <<cache, calls, first, last, options, agg, adf, ares>>

\* line 108, up to the element call that follows the answer of the listing
\* request: line 110 with files, line 44 or line 172 without
ListStep(listing) ==
    /\ loc.pc = "start"
    /\ LET files == get_file_list(listing)
       IN /\ run' = [run EXCEPT !.listed = TRUE, !.listing = listing,
                                !.files = files]
          /\ loc' = [loc EXCEPT !.pc = IF files # <<>> THEN "listed" ELSE "empty"]
    /\ UNCHANGED <<cache, calls, first, last, selected_file, options, agg, adf, ares>>

\* lines 44 and 171-172: the messages of a run without files, and its end
NoFiles(cleanup) ==
    /\ loc.pc = "empty"
    /\ EndRun("no_files")
    /\ selected_file' = IF cleanup THEN Absent ELSE selected_file
    /\ options' = <<>>
    /\ UNCHANGED <<cache, calls, first, last, agg, adf, ares>>

\* lines 113-119: the default selection, the index of the stored selection,
\* and the registration of the select box widget under its key
SelectStep(cleanup) ==
    /\ loc.pc = "listed"
    /\ LET files == run.files
           selected == IF selected_file = Absent THEN files[1] ELSE selected_file
       IN IF selected \in Range(files)
          THEN /\ ~ cleanup
               /\ selected_file' = selected
               /\ loc' = [loc EXCEPT !.pc = "select"]
               /\ UNCHANGED <<run, options>>
          ELSE /\ EndRun("ValueError")
               /\ selected_file' = IF cleanup THEN Absent ELSE selected
               /\ options' = <<>>
    /\ UNCHANGED <<cache, calls, first, last, agg, adf, ares>>

\* lines 116-125: the select box is sent to the browser, up to the entry of
\* aggregate_csv_files
ShowSelect ==
    /\ loc.pc = "select"
    /\ options' = run.files
    /\ loc' = aggregate_enter(run.files)
    /\ UNCHANGED <<cache, calls, first, last, selected_file, run, agg, adf, ares>>

\* status of a run that an exception of fetch_csv_content ends
FetchEnd(how) == IF how = "stopped" THEN "stopped" ELSE "fetch_raised"

\* one iteration of the loop of aggregate_csv_files called at line 125
FetchStep(response, rerun) ==
    /\ loc.pc = "loop"
    /\ loc.next <= Len(loc.file_names)
    /\ \E it \in {aggregate_iteration(loc, response, rerun, Shared)} :
          /\ WithinCalls(it.w)
          /\ SetShared(it.w)
          /\ run' = [run EXCEPT
                        !.fetched = @ \cup {loc.file_names[loc.next]},
                        !.status = IF it.loc.pc # "loop" THEN FetchEnd(it.loc.pc) ELSE @]
          /\ loc' = IF it.loc.pc # "loop" THEN [loc EXCEPT !.pc = "idle"] ELSE it.loc
    /\ UNCHANGED <<selected_file, options, agg, adf, ares>>

\* line 103 and lines 127-170; lines 138-168 are reached only when
\* analysis_pattern returns
rest(l, selected, response, rerun, w) ==
    LET aggregated_data == aggregate_result(l)
    IN IF ~ df_empty(aggregated_data)
       THEN LET an == analysis_pattern(aggregated_data, weight_factor)
            IN IF an.status # "returned"
               THEN [status |-> "analysis_raised", w |-> w]
               ELSE LET s == fetch_csv_content(selected, response, rerun, w)
                    IN [status |-> IF s.raised THEN FetchEnd(s.how) ELSE "rendered",
                        w |-> s.w]
       ELSE [status |-> "no_data", w |-> w]

Finish(response, rerun) ==
    /\ loc.pc = "loop"
    /\ loc.next > Len(loc.file_names)
    /\ \E b \in {rest(loc, selected_file, response, rerun, Shared)} :
          /\ WithinCalls(b.w)
          /\ SetShared(b.w)
          /\ EndRun(b.status)
    /\ UNCHANGED <<selected_file, options, agg, adf, ares>>

\* a rerun request stops the run between two steps
Stop(cleanup) ==
    /\ loc.pc \in {"start", "empty", "listed", "select", "loop"}
    /\ cleanup => loc.pc \in {"start", "empty", "listed"}
    /\ EndRun("stopped")
    /\ selected_file' = IF cleanup THEN Absent ELSE selected_file
    /\ UNCHANGED <<cache, calls, first, last, options, agg, adf, ares>>

\* the script thread of another session calls fetch_csv_content
OtherFetch(file_name, response, rerun) ==
    /\ \E r \in {fetch_csv_content(file_name, response, rerun, Shared)} :
          /\ WithinCalls(r.w)
          /\ SetShared(r.w)
    /\ UNCHANGED <<selected_file, options, run, loc, agg, adf, ares>>

Next ==
    \/ \E choice \in {NoChoice} \cup CsvNames : StartRun(choice)
    \/ \E listing \in ListingResponses : ListStep(listing)
    \/ \E cleanup \in BOOLEAN : NoFiles(cleanup)
    \/ \E cleanup \in BOOLEAN : SelectStep(cleanup)
    \/ ShowSelect
    \/ \E response \in FileResponses, rerun \in BOOLEAN : FetchStep(response, rerun)
    \/ \E response \in FileResponses, rerun \in BOOLEAN : Finish(response, rerun)
    \/ \E cleanup \in BOOLEAN : Stop(cleanup)
    \/ \E file_name \in CsvNames, response \in FileResponses, rerun \in BOOLEAN :
          OtherFetch(file_name, response, rerun)

Spec == Init /\ [][Next]_vars

(***************************************************************************)
(* aggregate_csv_files called on any list of file names, step by step      *)
(***************************************************************************)
AggregateCall(file_names) ==
    /\ loc.pc = "idle"
    /\ loc' = aggregate_enter(file_names)
    /\ agg' = NotCalled
    /\ UNCHANGED <<cache, calls, first, last, selected_file, options, run, adf, ares>>

AggregateStep(response, rerun) ==
    /\ loc.pc = "loop"
    /\ loc.next <= Len(loc.file_names)
    /\ \E it \in {aggregate_iteration(loc, response, rerun, Shared)} :
          /\ WithinCalls(it.w)
          /\ SetShared(it.w)
          /\ IF it.loc.pc # "loop"
             THEN /\ agg' = [status |-> it.loc.pc, file_names |-> loc.file_names,
                             returned |-> loc.returned, result |-> <<>>]
                  /\ loc' = NoCall
             ELSE /\ loc' = it.loc
                  /\ UNCHANGED agg
    /\ UNCHANGED <<selected_file, options, run, adf, ares>>

AggregateReturn ==
    /\ loc.pc = "loop"
    /\ loc.next > Len(loc.file_names)
    /\ agg' = [status |-> "returned", file_names |-> loc.file_names,
               returned |-> loc.returned, result |-> aggregate_result(loc)]
    /\ loc' = NoCall
    /\ UNCHANGED <<cache, calls, first, last, selected_file, options, run, adf, ares>>

NextAggregate ==
    \/ \E file_names \in FileNameLists : AggregateCall(file_names)
    \/ \E response \in FileResponses, rerun \in BOOLEAN : AggregateStep(response, rerun)
    \/ AggregateReturn
    \/ \E file_name \in CsvNames, response \in FileResponses, rerun \in BOOLEAN :
          OtherFetch(file_name, response, rerun)

SpecAggregate == Init /\ [][NextAggregate]_vars

(***************************************************************************)
(* analysis_pattern applied to any table, and again to the table it left   *)
(***************************************************************************)
InitAnalysis ==
    /\ cache = <<>>
    /\ calls = [n \in CsvNames |-> 0]
    /\ first = <<>>
    /\ last = NoFetch
    /\ selected_file = Absent
    /\ options = <<>>
    /\ run = NotRun
    /\ loc = NoCall
    /\ agg = NotCalled
    /\ adf \in AnalysisTables
    /\ ares = NotAnalysed

Analyse ==
    /\ \E out \in {analysis_pattern(adf, weight_factor)} :
          /\ ares' = out
          /\ adf' = out.df
    /\ UNCHANGED <<cache, calls, first, last, selected_file, options, run, loc, agg>>

NextAnalysis == Analyse

SpecAnalysis == InitAnalysis /\ [][NextAnalysis]_vars

(***************************************************************************)
(* Properties                                                              *)
(***************************************************************************)
RECURSIVE RowsOf(_)
RowsOf(returned) ==
    IF returned = <<>> THEN 0 ELSE Len(Head(returned)[2]) + RowsOf(Tail(returned))

\* C1: a returned Aggregated Table has as many rows as the Datasets fetched
\* for the names of the list have together, a failed or empty fetch counting
\* 0; it is the empty table when the list is empty or every fetch is empty.
C1_RowCount ==
    agg.status = "returned" =>
        /\ Len(agg.returned) = Len(agg.file_names)
        /\ \A i \in DOMAIN agg.returned : agg.returned[i][1] = agg.file_names[i]
        /\ Len(agg.result) = RowsOf(agg.returned)
        /\ (\A i \in DOMAIN agg.returned : df_empty(agg.returned[i][2]))
              => agg.result = EmptyDataFrame

C1_Witness ==
    /\ agg.status = "returned"
    /\ Len(agg.file_names) = 2
    /\ \E i, j \in DOMAIN agg.returned :
          /\ agg.returned[i][3] = "failed"
          /\ df_empty(agg.returned[i][2])
          /\ Len(agg.returned[j][2]) = 2
    /\ Len(agg.result) = 2

\* C2 (as claimed): whenever the retrieval or the decoding of a file fails,
\* fetch_csv_content hands back an empty Dataset without raising and
\* aggregate_csv_files goes on to fetch every remaining file of the list.
C2_Original ==
    agg.status \in {"raised", "returned"} =>
        /\ agg.status = "returned"
        /\ Len(agg.returned) = Len(agg.file_names)
        /\ \A i \in DOMAIN agg.returned :
              agg.returned[i][3] = "failed" => df_empty(agg.returned[i][2])

\* C3 (as claimed): over any sequence of page runs and fetch requests the
\* network call for a file name is issued at most once.
C3_Original == \A n \in CsvNames : calls[n] <= 1

\* C4: every Dataset a fetch hands back equals what the first fetch of that
\* name handed back, whatever aggregation, analysis, fetches of other
\* sessions and changes of the remote content happened in between.
C4_Immutable ==
    /\ last.name \in CsvNames =>
          /\ last.name \in DOMAIN first
          /\ last.df = first[last.name]
    /\ \A i \in DOMAIN loc.returned :
          /\ loc.returned[i][1] \in DOMAIN first
          /\ loc.returned[i][2] = first[loc.returned[i][1]]

C4_Witness ==
    /\ run.status = "analysis_raised"
    /\ last.stale
    /\ ~ df_empty(last.df)
    /\ \E i \in DOMAIN loc.returned :
          /\ loc.returned[i][1] = last.name
          /\ loc.returned[i][3] = "cache"

\* the loop of lines 69-78 ran to its end
Analysed == ares.status \in {"KeyError", "returned"}

\* the tags of row i of the table handed to analysis_pattern
RowTags(i) == iterate(eval_value(ares.given[i].tagged_words))

RowsContaining(tag) == {i \in DOMAIN ares.given : tag \in Range(RowTags(i))}

RECURSIVE ScoreSum(_)
ScoreSum(S) ==
    IF S = {} THEN 0
    ELSE LET i == CHOOSE i \in S : TRUE IN ares.given[i].em_score + ScoreSum(S \ {i})

RECURSIVE CountSum(_, _)
CountSum(counts, S) ==
    IF S = {} THEN 0
    ELSE LET t == CHOOSE t \in S : TRUE IN counts[t] + CountSum(counts, S \ {t})

\* C5 (as claimed): the average_em_score computed for a tag is the mean of
\* em_score over the rows whose tag sequence contains the tag, each row
\* counted once.
C5_Original ==
    Analysed =>
        \A tag \in DOMAIN ares.tag_em_avg :
            ares.tag_em_avg[tag].sum * Cardinality(RowsContaining(tag))
                = ScoreSum(RowsContaining(tag)) * ares.tag_em_avg[tag].n

\* C6 (as claimed): the tag_count values add up to at least the number of
\* rows with a tag, and to exactly that number when every row has exactly
\* one distinct tag.
C6_Original ==
    Analysed =>
        LET total == CountSum(ares.tag_counts, DOMAIN ares.tag_counts)
            tagged == {i \in DOMAIN ares.given : RowTags(i) # <<>>}
        IN /\ total >= Cardinality(tagged)
           /\ (\A i \in DOMAIN ares.given : Cardinality(Range(RowTags(i))) = 1)
                 => total = Cardinality(tagged)

\* average_em_score + tag_count * weight_factor, as a fraction of score units
Composite(row) ==
    [sum |-> row.average_em_score.sum
                + row.tag_count * weight_factor * ScoreUnit * row.average_em_score.n,
     n |-> row.average_em_score.n]

Position(order, tag) == CHOOSE i \in DOMAIN order : order[i] = tag

\* C7 (as claimed): analysis_pattern returns the tags ordered by descending
\* composite score, tags of equal composite score in first-observed order.
C7_Original ==
    Analysed =>
        /\ ares.status = "returned"
        /\ {ares.result[i].tag : i \in DOMAIN ares.result} = Range(ares.order)
        /\ \A i, j \in DOMAIN ares.result :
              i < j =>
                 \/ frac_gt(Composite(ares.result[i]), Composite(ares.result[j]))
                 \/ /\ frac_eq(Composite(ares.result[i]), Composite(ares.result[j]))
                    /\ Position(ares.order, ares.result[i].tag)
                          < Position(ares.order, ares.result[j].tag)

\* C8: when a row's tagged_words cannot be parsed, analysis_pattern fails at
\* the parse: the failure is its outcome, nothing is computed or returned,
\* not even for the well-formed rows, and the table is left as it was.
C8_ParseFailure ==
    (ares.status # "not_run"
        /\ \E i \in DOMAIN ares.given : ~ eval_ok(ares.given[i].tagged_words))
        => /\ ares.status = "eval_raised"
           /\ ares.result = <<>>
           /\ ares.order = <<>>
           /\ adf = ares.given

C8_Witness ==
    /\ ares.status = "eval_raised"
    /\ \E i, j \in DOMAIN ares.given :
          /\ ares.given[i].tagged_words.type = "str"
          /\ ~ eval_ok(ares.given[i].tagged_words)
          /\ eval_ok(ares.given[j].tagged_words)
          /\ iterate(eval_value(ares.given[j].tagged_words)) # <<>>

ListsNoFiles(listing) ==
    \/ listing.status # StatusOK
    \/ \A i \in DOMAIN listing.names : ~ HasCsvSuffix(listing.names[i])

\* C9 (as claimed): a page run whose listing gives no files ends in the
\* "no files" state, without a fetch, an aggregation or an exception.
C9_Original ==
    (run.listed /\ ListsNoFiles(run.listing) /\ loc.pc = "idle")
        => /\ run.status = "no_files"
           /\ run.files = <<>>
           /\ run.fetched = {}

\* C9 (amended): a page run whose listing gives no files attempts no fetch
\* and no aggregation and raises no error: after the listing it is at the
\* messages of lines 44 and 172, and it ends in the "no files" state unless
\* a rerun request stops it at one of these messages.
C9_NoFiles ==
    (run.listed /\ ListsNoFiles(run.listing))
        => /\ run.files = <<>>
           /\ run.fetched = {}
           /\ loc.file_names = <<>> /\ loc.returned = <<>> /\ loc.all_data = <<>>
           /\ loc.pc \in {"empty", "idle"}
           /\ run.status \in {"running", "no_files", "stopped"}
           /\ run.status = "running" <=> loc.pc = "empty"

C9_Witness ==
    /\ run.status = "no_files"
    /\ run.listing.status # StatusOK
    /\ run.listing.names # <<>>
    /\ DOMAIN cache # {}

\* C10 (as claimed): whenever a run with a non-empty listing reaches the
\* select box, the selection held in the session state is one of the files
\* of that run's listing and looking up its index does not fail.
C10_Original ==
    /\ run.status # "ValueError"
    /\ loc.pc = "loop" => selected_file \in Range(run.files)

====
